---- MODULE Spec2Model ----
(***************************************************************************)
(* Model of src/src/utils.py: the similarity-scoring engine (gamma, psi,   *)
(* phi, omega coefficients and their primitives).                          *)
(*                                                                         *)
(* Numbers.  A float is modelled by an exact rational <<n, d>> in lowest   *)
(* terms with d > 0; NaN is <<0, 0>> (the value of 0/0) and +-inf is       *)
(* <<+-1, 0>>.  Rounding error is not modelled: "equals 1.0" means the     *)
(* exact value 1.  A Pearson coefficient of two 1-D vectors is             *)
(* cov / sqrt(var_x * var_y), in general irrational; it is kept as a       *)
(* "root" [s, q] standing for s * sqrt(q), s the sign and q a rational.    *)
(*                                                                         *)
(* Matrices.  An expression matrix of shape (nb_samples, nb_genes) is      *)
(* stored gene-major: a sequence of columns, each a sequence of integer    *)
(* sample values.  A correlation matrix is a sequence of rows.             *)
(***************************************************************************)
EXTENDS Integers, Sequences, FiniteSets, TLC

\* ------------------------------------------------------------------------
\* Exact arithmetic
\* ------------------------------------------------------------------------

Abs(i) == IF i < 0 THEN -i ELSE i

Sgn(i) == IF i < 0 THEN -1 ELSE IF i = 0 THEN 0 ELSE 1

RECURSIVE GCD(_, _)
GCD(a, b) == IF b = 0 THEN a ELSE GCD(b, a % b)

\* exact integer square root; undefined (TLC stops) when v is no square
ISqrt(v) == CHOOSE r \in 0..v : r * r = v

IsSquare(v) == \E r \in 0..v : r * r = v

NaN == <<0, 0>>

IsNaN(a) == a = NaN

RNorm(n, d) ==
    IF d = 0 THEN <<Sgn(n), 0>>
    ELSE LET g == GCD(Abs(n), Abs(d))
         IN  <<(Sgn(d) * n) \div g, Abs(d) \div g>>

R(i) == <<i, 1>>

RAdd(a, b) == IF IsNaN(a) \/ IsNaN(b) THEN NaN
              ELSE RNorm(a[1] * b[2] + b[1] * a[2], a[2] * b[2])

RNeg(a) == <<-a[1], a[2]>>

RSub(a, b) == RAdd(a, RNeg(b))

RMul(a, b) == IF IsNaN(a) \/ IsNaN(b) THEN NaN
              ELSE RNorm(a[1] * b[1], a[2] * b[2])

\* IEEE division: 0/0 is NaN, x/0 is +-inf
RDiv(a, b) == IF IsNaN(a) \/ IsNaN(b) THEN NaN
              ELSE RNorm(a[1] * b[2] * Sgn(b[1]), a[2] * Abs(b[1]))

\* sqrt of a rational whose numerator and denominator are squares
RSqrt(a) == IF IsNaN(a) THEN NaN ELSE <<ISqrt(a[1]), ISqrt(a[2])>>

RECURSIVE RSum(_)
RSum(s) == IF s = <<>> THEN R(0) ELSE RAdd(s[1], RSum(Tail(s)))

RECURSIVE ISum(_)
ISum(s) == IF s = <<>> THEN 0 ELSE s[1] + ISum(Tail(s))

\* np.dot of two 1-D vectors of the same length
Dot(x, y) == RSum([k \in 1..Len(x) |-> RMul(x[k], y[k])])

RECURSIVE Flatten(_)
Flatten(ss) == IF ss = <<>> THEN <<>> ELSE ss[1] \o Flatten(Tail(ss))

\* m[~np.isnan(m)]: the entries of s that are not NaN, order preserved
RECURSIVE DropNaN(_)
DropNaN(s) ==
    IF s = <<>> THEN <<>>
    ELSE (IF IsNaN(s[1]) THEN <<>> ELSE <<s[1]>>) \o DropNaN(Tail(s))

\* the entries m[a][b] with a < b, row by row
RECURSIVE StrictUpper(_, _, _)
StrictUpper(m, a, b) ==
    IF a > Len(m) THEN <<>>
    ELSE IF b > Len(m) THEN StrictUpper(m, a + 1, a + 2)
    ELSE <<m[a][b]>> \o StrictUpper(m, a, b + 1)

\* a < b on rationals
RLess(a, b) == a[1] * b[2] < b[1] * a[2]

RMax(a, b) == IF RLess(a, b) THEN b ELSE a

IsFinite(a) == a[2] # 0

\* the number of entries of s equal to v
Count(s, v) == Cardinality({k \in 1..Len(s) : s[k] = v})

\* roots: s * sqrt(q)
NaNRoot == [s |-> 0, q |-> NaN]

OneRoot == [s |-> 1, q |-> R(1)]

IsNaNRoot(r) == IsNaN(r.q)

\* ------------------------------------------------------------------------
\* CORRELATION UTILITIES
\* ------------------------------------------------------------------------

\* standardize (lines 24-27) applied to one column a of integers:
\* (a - mean) / std, std = sqrt(mean((a - mean)^2)); a zero-variance column
\* gives 0/0 = NaN in every entry
standardize(a) ==
    LET N     == Len(a)
        a_off == RNorm(ISum(a), N)
        dev   == [k \in 1..N |-> RSub(R(a[k]), a_off)]
        var   == RDiv(Dot(dev, dev), R(N))
        a_std == RSqrt(var)
    IN  [k \in 1..N |-> RDiv(dev[k], a_std)]

\* pearson_correlation(x, y) on two gene matrices (sequences of columns):
\* the (nb_genes_1 x nb_genes_2) matrix dot(x_.T, y_) / nb_samples
pearson_correlation(x, y) ==
    LET x_ == [i \in 1..Len(x) |-> standardize(x[i])]
        y_ == [j \in 1..Len(y) |-> standardize(y[j])]
    IN  [i \in 1..Len(x) |->
            [j \in 1..Len(y) |-> RDiv(Dot(x_[i], y_[j]), R(Len(x[i])))]]

\* pearson_correlation(x, y) on two 1-D float vectors of one length N:
\* dot((x-mx)/sx, (y-my)/sy) / N = cov / sqrt(var_x * var_y), kept as a
\* root; a zero standard deviation makes every standardized entry 0/0 = NaN
pearson_correlation_1d(x, y) ==
    LET N   == Len(x)
        mx  == RDiv(RSum(x), R(N))
        my  == RDiv(RSum(y), R(N))
        dx  == [k \in 1..N |-> RSub(x[k], mx)]
        dy  == [k \in 1..N |-> RSub(y[k], my)]
        vx  == RDiv(Dot(dx, dx), R(N))
        vy  == RDiv(Dot(dy, dy), R(N))
        cov == RDiv(Dot(dx, dy), R(N))
    IN  IF N = 0 \/ IsNaN(vx) \/ IsNaN(vy) \/ vx[1] = 0 \/ vy[1] = 0
        THEN NaNRoot
        ELSE [s |-> Sgn(cov[1]), q |-> RDiv(RMul(cov, cov), RMul(vx, vy))]

\* cosine_similarity(x, y) = dot(x, y) / (norm(x) * norm(y)); the product
\* of the norms is sqrt(sum x^2 * sum y^2)
cosine_similarity(x, y) ==
    RDiv(Dot(x, y), RSqrt(RMul(Dot(x, x), Dot(y, y))))

\* np.triu(m_, k=1): entries on and below the diagonal become 0
triu1(m_) ==
    [i \in 1..Len(m_) |-> [j \in 1..Len(m_) |-> IF j > i THEN m_[i][j] ELSE R(0)]]

\* np.tril(np.zeros_like(m_) + np.nan): NaN on and below the diagonal, 0 above
tril_nan(m_) ==
    [i \in 1..Len(m_) |-> [j \in 1..Len(m_) |-> IF j <= i THEN NaN ELSE R(0)]]

\* upper_diag_list(m_) (lines 52-57)
upper_diag_list(m_) ==
    LET m    == triu1(m_)
        tril == tril_nan(m_)
        msum == [i \in 1..Len(m_) |->
                    [j \in 1..Len(m_) |-> RAdd(m[i][j], tril[i][j])]]
    IN  DropNaN(Flatten(msum))

\* correlations_list(x, y) with the default corr_fun
correlations_list(x, y) == upper_diag_list(pearson_correlation(x, y))

\* ------------------------------------------------------------------------
\* State
\* ------------------------------------------------------------------------

VARIABLES
    pc,            \* position of the running call
    top,           \* the entry point that was called (decides where a return goes)
    err,           \* the exception that ended the run, "none" while there is none
    ud_m,          \* upper_diag_list: the argument m_
    ud_out,        \* upper_diag_list: the returned list
    gene_symbols,  \* list of gene symbols matching the columns of expr_x, expr_z
    tf_tg,         \* tf_tg_interactions(): items (tf, tgs) in dict iteration order
    expr_x,        \* real data
    expr_z,        \* synthetic data
    tie_rule,      \* linkage: which of several closest pairs is merged first
    it,            \* compute_tf_tg_corrs / find_chip_rates: dict items consumed
    tf_tg_corr,    \* compute_tf_tg_corrs: local list of TF-TG groups
    tg_tg_corr,    \* compute_tf_tg_corrs: local list of TG-TG groups
    group_tfs,     \* history: the TF of each group appended so far
    r_tf_tg_corr,  \* compute_scores: results for expr_x
    r_tg_tg_corr,
    r_group_tfs,   \* history: the TFs of the groups of expr_x
    s_tf_tg_corr,  \* compute_scores: results for expr_z
    s_tg_tg_corr,
    s_group_tfs,   \* history: the TFs of the groups of expr_z
    i,             \* psi / phi: pairs of the zip consumed
    weight,        \* psi / phi: weight of the last pair that was counted
    weights_sum,   \* psi / phi
    total_sum,     \* psi / phi
    psi_dx_dz,
    phi_dx_dz,
    active_tfs,    \* find_chip_rates: local list of chip rates
    weights,       \* find_chip_rates: local list of weights
    rates_x,       \* omega_coefficient
    weights_x,
    rates_y,
    weights_y,
    omega_coeff,
    dists_x,       \* gamma_coefficients
    dists_z,
    gamma_dx_dz,
    gamma_dx_tx,
    gamma_dz_tz,
    gamma_tx_tz,
    xl_matrix,
    zl_matrix,
    lk_n,          \* linkage: number of observations
    lk_active,     \* linkage: ids of the clusters not merged yet
    lk_dist,       \* linkage: distance of each pair of such clusters
    lk_size,       \* linkage: number of observations of each such cluster
    l_matrix,      \* linkage / dendrogram_distance: the linkage matrix
    clusters,      \* dendrogram_distance: id -> indices of the Cluster
    dd_m,          \* dendrogram_distance: the distance matrix m
    dd_writes,     \* history: how often each cell of m was assigned
    dd_i,          \* dendrogram_distance: rows of l_matrix consumed
    dists1,        \* compare_cophenetic
    dists2,
    scores         \* compute_scores: the returned list

inputVars == <<top, gene_symbols, tf_tg, expr_x, expr_z, tie_rule>>

udVars == <<ud_m, ud_out>>

corrLocals == <<it, tf_tg_corr, tg_tg_corr, group_tfs>>

corrResults == <<r_tf_tg_corr, r_tg_tg_corr, r_group_tfs,
                 s_tf_tg_corr, s_tg_tg_corr, s_group_tfs>>

aggLocals == <<i, weight, weights_sum, total_sum>>

aggResults == <<psi_dx_dz, phi_dx_dz>>

regVars == <<corrLocals, corrResults, aggLocals, aggResults>>

omegaVars == <<active_tfs, weights, rates_x, weights_x, rates_y, weights_y, omega_coeff>>

gammaResults == <<dists_x, dists_z, gamma_dx_dz, gamma_dx_tx, gamma_dz_tz, gamma_tx_tz,
                  xl_matrix, zl_matrix>>

lkLocals == <<lk_n, lk_active, lk_dist, lk_size>>

ddLocals == <<clusters, dd_m, dd_writes, dd_i>>

ddResults == <<dists1, dists2>>

gammaVars == <<gammaResults, lkLocals, l_matrix, ddLocals, ddResults>>

vars == <<pc, err, inputVars, udVars, regVars, omegaVars, gammaVars, scores>>

\* the value of a variable that no call has assigned yet
Unset == <<>>

Range(s) == {s[k] : k \in 1..Len(s)}

\* ------------------------------------------------------------------------
\* upper_diag_list applied to arbitrary square matrices
\* ------------------------------------------------------------------------

MaxN == 3

UDVals == {NaN, R(1), R(2)}

SquareMatrices == UNION {[1..n -> [1..n -> UDVals]] : n \in 1..MaxN}

IdleInputs ==
    /\ gene_symbols = <<>>
    /\ tf_tg = <<>>
    /\ expr_x = <<>>
    /\ expr_z = <<>>
    /\ tie_rule = "first"

IdleCorr ==
    /\ it = 0
    /\ tf_tg_corr = <<>>
    /\ tg_tg_corr = <<>>
    /\ group_tfs = <<>>
    /\ r_tf_tg_corr = Unset
    /\ r_tg_tg_corr = Unset
    /\ r_group_tfs = Unset
    /\ s_tf_tg_corr = Unset
    /\ s_tg_tg_corr = Unset
    /\ s_group_tfs = Unset

IdleAgg ==
    /\ i = 0
    /\ weight = 0
    /\ weights_sum = 0
    /\ total_sum = R(0)
    /\ psi_dx_dz = Unset
    /\ phi_dx_dz = Unset

IdleOmega ==
    /\ active_tfs = <<>>
    /\ weights = <<>>
    /\ rates_x = Unset
    /\ weights_x = Unset
    /\ rates_y = Unset
    /\ weights_y = Unset
    /\ omega_coeff = Unset

IdleGamma ==
    /\ dists_x = Unset
    /\ dists_z = Unset
    /\ gamma_dx_dz = Unset
    /\ gamma_dx_tx = Unset
    /\ gamma_dz_tz = Unset
    /\ gamma_tx_tz = Unset
    /\ xl_matrix = Unset
    /\ zl_matrix = Unset
    /\ lk_n = 0
    /\ lk_active = {}
    /\ lk_dist = <<>>
    /\ lk_size = <<>>
    /\ l_matrix = <<>>
    /\ clusters = <<>>
    /\ dd_m = <<>>
    /\ dd_writes = <<>>
    /\ dd_i = 0
    /\ dists1 = Unset
    /\ dists2 = Unset
    /\ scores = Unset

InitUD ==
    /\ pc = "upper_diag_list"
    /\ top = "upper_diag_list"
    /\ err = "none"
    /\ ud_m \in SquareMatrices
    /\ ud_out = Unset
    /\ IdleInputs
    /\ IdleCorr
    /\ IdleAgg
    /\ IdleOmega
    /\ IdleGamma

UpperDiagList ==
    /\ pc = "upper_diag_list"
    /\ ud_out' = upper_diag_list(ud_m)
    /\ pc' = "done"
    /\ UNCHANGED <<err, inputVars, ud_m, regVars, omegaVars, gammaVars, scores>>

NextUD == UpperDiagList

SpecUD == InitUD /\ [][NextUD]_vars

\* ------------------------------------------------------------------------
\* compute_tf_tg_corrs (lines 71-106), one action per item of tf_tg.items()
\* ------------------------------------------------------------------------

\* np.where(gene_symbols == tg)[0] for a list of unique symbols
IndexOf(symbols, g) == CHOOSE k \in 1..Len(symbols) : symbols[k] = g

\* line 87: the indices of the targets that are in gene_symbols, in the
\* order of tgs
RECURSIVE tg_idxs_of(_, _)
tg_idxs_of(symbols, tgs) ==
    IF tgs = <<>> THEN <<>>
    ELSE (IF tgs[1] \in Range(symbols) THEN <<IndexOf(symbols, tgs[1])>> ELSE <<>>)
         \o tg_idxs_of(symbols, Tail(tgs))

\* line 89 with the length test off by one: a TF whose targets name no column
\* gets an (empty) group
corr_condition_empty_group(symbols, tf, tg_idxs) ==
    tf \in Range(symbols) /\ Len(tg_idxs) >= 0

\* line 89
corr_condition(symbols, tf, tg_idxs) == tf \in Range(symbols) /\ Len(tg_idxs) > 0

\* expr[:, idxs]
Columns(expr, idxs) == [k \in 1..Len(idxs) |-> expr[idxs[k]]]

\* lines 91-92: the TG-TG correlations of one TF
tg_tg_group(expr, tg_idxs) ==
    LET expr_tgs == Columns(expr, tg_idxs)
    IN  correlations_list(expr_tgs, expr_tgs)

\* lines 96-98: the TF-TG correlations of one TF
tf_tg_group(expr, symbols, tf, tg_idxs) ==
    LET expr_tgs == Columns(expr, tg_idxs)
        expr_tf  == Columns(expr, <<IndexOf(symbols, tf)>>)
    IN  Flatten(pearson_correlation(expr_tf, expr_tgs))

CorrExpr == IF pc = "corrs_x" THEN expr_x ELSE expr_z

ComputeTfTgCorrsStep ==
    /\ pc \in {"corrs_x", "corrs_z"}
    /\ it < Len(tf_tg)
    /\ LET tf      == tf_tg[it + 1].tf
           tgs     == tf_tg[it + 1].tgs
           tg_idxs == tg_idxs_of(gene_symbols, tgs)
       IN  IF corr_condition(gene_symbols, tf, tg_idxs)
           THEN /\ tg_tg_corr' = Append(tg_tg_corr, tg_tg_group(CorrExpr, tg_idxs))
                /\ tf_tg_corr' = Append(tf_tg_corr,
                                        tf_tg_group(CorrExpr, gene_symbols, tf, tg_idxs))
                /\ group_tfs' = Append(group_tfs, tf)
           ELSE UNCHANGED <<tg_tg_corr, tf_tg_corr, group_tfs>>
    /\ it' = it + 1
    /\ UNCHANGED <<pc, err, inputVars, udVars, corrResults, aggLocals, aggResults>>
    /\ UNCHANGED <<omegaVars, gammaVars, scores>>

\* flat=False: the per-TF groups are returned as they are (lines 281-282)
ComputeTfTgCorrsReturn ==
    /\ pc \in {"corrs_x", "corrs_z"}
    /\ it = Len(tf_tg)
    /\ IF pc = "corrs_x"
       THEN /\ r_tf_tg_corr' = tf_tg_corr
            /\ r_tg_tg_corr' = tg_tg_corr
            /\ r_group_tfs' = group_tfs
            /\ UNCHANGED <<s_tf_tg_corr, s_tg_tg_corr, s_group_tfs>>
            /\ pc' = "corrs_z"
       ELSE /\ s_tf_tg_corr' = tf_tg_corr
            /\ s_tg_tg_corr' = tg_tg_corr
            /\ s_group_tfs' = group_tfs
            /\ UNCHANGED <<r_tf_tg_corr, r_tg_tg_corr, r_group_tfs>>
            /\ pc' = "psi"
    /\ it' = 0
    /\ tf_tg_corr' = <<>>
    /\ tg_tg_corr' = <<>>
    /\ group_tfs' = <<>>
    /\ UNCHANGED <<err, inputVars, udVars, aggLocals, aggResults>>
    /\ UNCHANGED <<omegaVars, gammaVars, scores>>

\* ------------------------------------------------------------------------
\* psi_coefficient (lines 139-158) and phi_coefficient (lines 161-183), one
\* action per pair of the zip; weights_type has its default, 'nb_genes'
\* ------------------------------------------------------------------------

Min(a, b) == IF a <= b THEN a ELSE b

\* zip(a, b) stops at the shorter list
ZipLen(a, b) == Min(Len(a), Len(b))

\* line 153: nb. of genes regulated by the TF
psi_weight(cx) == Len(cx)

PsiStep ==
    /\ pc = "psi"
    /\ i < ZipLen(r_tf_tg_corr, s_tf_tg_corr)
    /\ LET cx == r_tf_tg_corr[i + 1]
           cz == s_tf_tg_corr[i + 1]
           w  == psi_weight(cx)
       IN  /\ weight' = w
           /\ weights_sum' = weights_sum + w
           /\ IF Len(cx) = Len(cz)
              THEN /\ total_sum' = RAdd(total_sum, RMul(R(w), cosine_similarity(cx, cz)))
                   /\ i' = i + 1
                   /\ UNCHANGED <<pc, err>>
              ELSE \* np.dot: shapes not aligned
                   /\ pc' = "raised"
                   /\ err' = "ValueError"
                   /\ UNCHANGED <<total_sum, i>>
    /\ UNCHANGED <<inputVars, udVars, corrLocals, corrResults, aggResults>>
    /\ UNCHANGED <<omegaVars, gammaVars, scores>>

\* line 158 (and 183): total_sum / weights_sum. weights_sum is 0 only when
\* no pair was counted, and then both operands are still the Python ints
\* of lines 148-149, whose division raises ZeroDivisionError
PsiReturn ==
    /\ pc = "psi"
    /\ i = ZipLen(r_tf_tg_corr, s_tf_tg_corr)
    /\ IF weights_sum = 0
       THEN /\ pc' = "raised"
            /\ err' = "ZeroDivisionError"
            /\ UNCHANGED <<aggLocals, aggResults>>
       ELSE /\ psi_dx_dz' = RDiv(total_sum, R(weights_sum))
            /\ pc' = "phi"
            /\ i' = 0
            /\ weight' = 0
            /\ weights_sum' = 0
            /\ total_sum' = R(0)
            /\ UNCHANGED <<err, phi_dx_dz>>
    /\ UNCHANGED <<inputVars, udVars, corrLocals, corrResults>>
    /\ UNCHANGED <<omegaVars, gammaVars, scores>>

\* lines 176-178: max(np.roots([1, 1, -2 * x])), the root w >= 0 of
\* w^2 + w - 2x = 0 (the other root is -w - 1)
phi_weight(cx) ==
    LET x == Len(cx)
    IN  CHOOSE w \in 0..(2 * x) : w * w + w - 2 * x = 0

\* line 173 testing for more than one entry: the two-target TFs are skipped too
phi_counts_above_one(cx) == Len(cx) > 1

\* line 173 without the test: the empty lists are counted too
phi_counts_all(cx) == Len(cx) >= 0

\* line 173
phi_counts(cx) == Len(cx) > 0

PhiStep ==
    /\ pc = "phi"
    /\ i < ZipLen(r_tg_tg_corr, s_tg_tg_corr)
    /\ LET cx == r_tg_tg_corr[i + 1]
           cz == s_tg_tg_corr[i + 1]
           w  == phi_weight(cx)
       IN  IF phi_counts(cx)
           THEN /\ weight' = w
                /\ weights_sum' = weights_sum + w
                /\ IF Len(cx) = Len(cz)
                   THEN /\ total_sum' = RAdd(total_sum,
                                             RMul(R(w), cosine_similarity(cx, cz)))
                        /\ i' = i + 1
                        /\ UNCHANGED <<pc, err>>
                   ELSE \* np.dot: shapes not aligned
                        /\ pc' = "raised"
                        /\ err' = "ValueError"
                        /\ UNCHANGED <<total_sum, i>>
           ELSE /\ i' = i + 1
                /\ UNCHANGED <<weight, weights_sum, total_sum, pc, err>>
    /\ UNCHANGED <<inputVars, udVars, corrLocals, corrResults, aggResults>>
    /\ UNCHANGED <<omegaVars, gammaVars, scores>>

PhiReturn ==
    /\ pc = "phi"
    /\ i = ZipLen(r_tg_tg_corr, s_tg_tg_corr)
    /\ IF weights_sum = 0
       THEN /\ pc' = "raised"
            /\ err' = "ZeroDivisionError"
            /\ UNCHANGED <<aggLocals, aggResults>>
       ELSE /\ phi_dx_dz' = RDiv(total_sum, R(weights_sum))
            /\ pc' = IF top = "compute_scores" THEN "chip_x" ELSE "done"
            /\ UNCHANGED <<err, aggLocals, psi_dx_dz>>
    /\ UNCHANGED <<inputVars, udVars, corrLocals, corrResults>>
    /\ UNCHANGED <<omegaVars, gammaVars, scores>>

\* ------------------------------------------------------------------------
\* find_chip_rates (lines 186-237), one action per item of tf_tg.items(),
\* and omega_coefficient (lines 240-266)
\* ------------------------------------------------------------------------

ChipExpr == IF pc = "chip_x" THEN expr_x ELSE expr_z

\* line 196: nb_samples, nb_genes = expr.shape
nb_samples_of(expr) == Len(expr[1])

\* line 220: the genes that are no target of the TF
non_tg_idxs_of(expr, tg_idxs) == (1..Len(expr)) \ Range(tg_idxs)

\* lines 223-235.  The rank-sum tests and their Benjamini-Hochberg
\* correction are library calls on the standardized data; the model keeps of
\* them only that each sample is either rejected or not, so the chip rate is
\* any multiple of 1 / nb_samples in [0, 1]
ChipRates(expr) == {RNorm(r, nb_samples_of(expr)) : r \in 0..nb_samples_of(expr)}

FindChipRatesStep ==
    /\ pc \in {"chip_x", "chip_z"}
    /\ it < Len(tf_tg)
    /\ LET tf      == tf_tg[it + 1].tf
           tgs     == tf_tg[it + 1].tgs
           tg_idxs == tg_idxs_of(gene_symbols, tgs)
       IN  IF corr_condition(gene_symbols, tf, tg_idxs)
           THEN \/ /\ weights' = Append(weights, Len(tg_idxs))
                   /\ \E chip_rate \in ChipRates(ChipExpr) :
                          active_tfs' = Append(active_tfs, chip_rate)
                   /\ it' = it + 1
                   /\ UNCHANGED <<pc, err>>
                \/ \* mannwhitneyu refuses an empty sample of non-target genes
                   /\ non_tg_idxs_of(ChipExpr, tg_idxs) = {}
                   /\ pc' = "raised"
                   /\ err' = "ValueError"
                   /\ UNCHANGED <<weights, active_tfs, it>>
           ELSE /\ it' = it + 1
                /\ UNCHANGED <<weights, active_tfs, pc, err>>
    /\ UNCHANGED <<inputVars, udVars, tf_tg_corr, tg_tg_corr, group_tfs, corrResults,
                   aggLocals, aggResults>>
    /\ UNCHANGED <<rates_x, weights_x, rates_y, weights_y, omega_coeff, gammaVars, scores>>

\* lines 252-253
FindChipRatesReturn ==
    /\ pc \in {"chip_x", "chip_z"}
    /\ it = Len(tf_tg)
    /\ IF pc = "chip_x"
       THEN /\ rates_x' = active_tfs
            /\ weights_x' = weights
            /\ pc' = "chip_z"
            /\ UNCHANGED <<rates_y, weights_y>>
       ELSE /\ rates_y' = active_tfs
            /\ weights_y' = weights
            /\ pc' = "omega"
            /\ UNCHANGED <<rates_x, weights_x>>
    /\ it' = 0
    /\ active_tfs' = <<>>
    /\ weights' = <<>>
    /\ UNCHANGED <<err, inputVars, udVars, tf_tg_corr, tg_tg_corr, group_tfs, corrResults,
                   aggLocals, aggResults, omega_coeff, gammaVars, scores>>

\* line 254, (weights_x == weights_y).all(): "pass", "AssertionError", or
\* "mismatch" when the two shapes cannot be broadcast (numpy then either
\* raises ValueError in the comparison or returns the bool False, which has
\* no method all: AttributeError)
weights_assertion(wx, wy) ==
    IF Len(wx) = Len(wy)
    THEN IF \A k \in 1..Len(wx) : wx[k] = wy[k] THEN "pass" ELSE "AssertionError"
    ELSE IF Len(wx) = 1
    THEN IF \A k \in 1..Len(wy) : wx[1] = wy[k] THEN "pass" ELSE "AssertionError"
    ELSE IF Len(wy) = 1
    THEN IF \A k \in 1..Len(wx) : wx[k] = wy[1] THEN "pass" ELSE "AssertionError"
    ELSE "mismatch"

IntsToR(w) == [k \in 1..Len(w) |-> R(w[k])]

\* line 257
weighted_mean(x, w) == RDiv(Dot(w, x), RSum(w))

\* line 258
weighted_var(x, w, mean) ==
    RDiv(Dot(w, [k \in 1..Len(x) |-> RMul(RSub(x[k], mean), RSub(x[k], mean))]), RSum(w))

\* line 259
weighted_covar(x, y, w, mean_x, mean_y) ==
    RDiv(Dot([k \in 1..Len(x) |-> RMul(w[k], RSub(x[k], mean_x))],
             [k \in 1..Len(y) |-> RSub(y[k], mean_y)]), RSum(w))

\* covar / np.sqrt(v) as a root: sign(covar) * sqrt(covar^2 / v)
div_by_sqrt(covar, v) ==
    IF IsNaN(covar) \/ IsNaN(v) \/ (covar[1] = 0 /\ v[1] = 0) THEN NaNRoot
    ELSE [s |-> Sgn(covar[1]), q |-> RDiv(RMul(covar, covar), v)]

\* lines 255-266
omega_value(rx, ry, wx) ==
    LET w      == IntsToR(wx)
        mean_x == weighted_mean(rx, w)
        mean_y == weighted_mean(ry, w)
        var_x  == weighted_var(rx, w, mean_x)
        var_y  == weighted_var(ry, w, mean_y)
        covar  == weighted_covar(rx, ry, w, mean_x, mean_y)
    IN  div_by_sqrt(covar, RMul(var_x, var_y))

OmegaCoefficient ==
    /\ pc = "omega"
    /\ LET a == weights_assertion(weights_x, weights_y)
       IN  IF a = "pass"
           THEN /\ omega_coeff' = omega_value(rates_x, rates_y, weights_x)
                /\ pc' = IF top = "compute_scores" THEN "scores_return" ELSE "done"
                /\ UNCHANGED err
           ELSE /\ pc' = "raised"
                /\ err' \in (IF a = "mismatch" THEN {"ValueError", "AttributeError"}
                             ELSE {"AssertionError"})
                /\ UNCHANGED omega_coeff
    /\ UNCHANGED <<inputVars, udVars, regVars>>
    /\ UNCHANGED <<active_tfs, weights, rates_x, weights_x, rates_y, weights_y>>
    /\ UNCHANGED <<gammaVars, scores>>

\* ------------------------------------------------------------------------
\* CLUSTERING UTILITIES: hierarchical_clustering (lines 302-315), one action
\* per merge of scipy's linkage(y, 'complete'); dendrogram_distance (lines
\* 348-378), one action per row of the linkage matrix; compare_cophenetic
\* (lines 381-391); gamma_coefficients (lines 109-136)
\* ------------------------------------------------------------------------

\* 1 - correlations_list(data, data) (lines 121, 122, 313)
distances_list(data) ==
    LET c == correlations_list(data, data)
    IN  [k \in 1..Len(c) |-> RSub(R(1), c[k])]

\* linkage accepts a condensed distance vector that is not empty, has a
\* length n(n-1)/2 and holds finite values only; it raises ValueError else
valid_y(y) ==
    /\ Len(y) > 0
    /\ \E n \in 2..(Len(y) + 1) : n * (n - 1) = 2 * Len(y)
    /\ \A k \in 1..Len(y) : ~IsNaN(y[k]) /\ IsFinite(y[k])

\* the number of observations of a condensed distance vector
num_obs_y(y) == CHOOSE n \in 2..(Len(y) + 1) : n * (n - 1) = 2 * Len(y)

\* the place in the condensed vector of the pair a < b of 0 .. n-1
condensed_index(n, a, b) == a * n - ((a * (a + 1)) \div 2) + (b - a - 1) + 1

PairsOf(ids) == {p \in ids \X ids : p[1] < p[2]}

PairBefore(p, q) == p[1] < q[1] \/ (p[1] = q[1] /\ p[2] <= q[2])

\* the pair that complete linkage merges next: a pair of clusters at the
\* least distance. Which of several such pairs comes first is fixed by the
\* library's algorithm and not by its interface: rule is either order of ids
TieRules == {"first", "last"}

closest_pair(active, dist, rule) ==
    CHOOSE p \in PairsOf(active) :
        \A q \in PairsOf(active) :
            \/ RLess(dist[p], dist[q])
            \/ /\ dist[p] = dist[q]
               /\ IF rule = "first" THEN PairBefore(p, q) ELSE PairBefore(q, p)

DistOf(dist, a, b) == IF a < b THEN dist[<<a, b>>] ELSE dist[<<b, a>>]

\* complete linkage: the distance of the merged cluster to another one is
\* the larger of the two distances
merged_dist(dist, active, a, b, new) ==
    [p \in PairsOf((active \ {a, b}) \cup {new}) |->
        IF p[2] = new
        THEN RMax(DistOf(dist, a, p[1]), DistOf(dist, b, p[1]))
        ELSE dist[p]]

\* the call linkage(y, 'complete') of line 314 begins (StartLinkage) or
\* raises ValueError
LinkageCall(y, next_pc) ==
    IF valid_y(y)
    THEN /\ lk_n' = num_obs_y(y)
         /\ lk_active' = 0..(num_obs_y(y) - 1)
         /\ lk_dist' = [p \in PairsOf(0..(num_obs_y(y) - 1)) |->
                           y[condensed_index(num_obs_y(y), p[1], p[2])]]
         /\ lk_size' = [k \in 0..(num_obs_y(y) - 1) |-> 1]
         /\ l_matrix' = <<>>
         /\ pc' = next_pc
         /\ UNCHANGED err
    ELSE /\ pc' = "raised"
         /\ err' = "ValueError"
         /\ UNCHANGED <<lkLocals, l_matrix>>

\* lines 121-123 and the call of line 126
GammaCoefficientsCall ==
    /\ pc = "gamma_coefficients"
    /\ dists_x' = distances_list(expr_x)
    /\ dists_z' = distances_list(expr_z)
    /\ IF Len(dists_x') = Len(dists_z')
       THEN /\ gamma_dx_dz' = pearson_correlation_1d(dists_x', dists_z')
            /\ LinkageCall(distances_list(expr_x), "linkage_x")
       ELSE \* line 29: assert x.shape[0] == y.shape[0]
            /\ pc' = "raised"
            /\ err' = "AssertionError"
            /\ UNCHANGED <<gamma_dx_dz, lkLocals, l_matrix>>
    /\ UNCHANGED <<gamma_dx_tx, gamma_dz_tz, gamma_tx_tz, xl_matrix, zl_matrix>>
    /\ UNCHANGED <<inputVars, udVars, regVars, omegaVars, ddLocals, ddResults, scores>>

\* one merge: the new cluster gets the id n + (number of merges so far)
LinkageMerge ==
    /\ pc \in {"linkage_x", "linkage_z"}
    /\ Cardinality(lk_active) > 1
    /\ LET p   == closest_pair(lk_active, lk_dist, tie_rule)
           new == lk_n + Len(l_matrix)
       IN  /\ l_matrix' = Append(l_matrix,
                                 [c1 |-> p[1], c2 |-> p[2], dist |-> lk_dist[p],
                                  n_elems |-> lk_size[p[1]] + lk_size[p[2]]])
           /\ lk_active' = (lk_active \ {p[1], p[2]}) \cup {new}
           /\ lk_dist' = merged_dist(lk_dist, lk_active, p[1], p[2], new)
           /\ lk_size' = [k \in (lk_active \ {p[1], p[2]}) \cup {new} |->
                             IF k = new THEN lk_size[p[1]] + lk_size[p[2]]
                             ELSE lk_size[k]]
    /\ UNCHANGED <<pc, err, lk_n>>
    /\ UNCHANGED <<inputVars, udVars, regVars, omegaVars, gammaResults, ddLocals,
                   ddResults, scores>>

\* Cluster(index=i).indices and Cluster(c_left, c_right).indices
cluster_leaf(index) == <<index>>

cluster_merge(c_left, c_right) == c_left \o c_right

\* lines 360-361
initial_clusters(nb_genes) == [k \in 0..(nb_genes - 1) |-> cluster_leaf(k)]

zeros(nb_genes) == [a \in 1..nb_genes |-> [b \in 1..nb_genes |-> R(0)]]

\* lines 364-365: clusters[nb_genes + i] = Cluster(clusters[c1], clusters[c2])
add_cluster(cl, id, z) ==
    [k \in DOMAIN cl \cup {id} |->
        IF k = id THEN cluster_merge(cl[z.c1], cl[z.c2]) ELSE cl[k]]

fill_distances_one_way(mm, c1_indices, c2_indices, dist) ==
    [a \in 1..Len(mm) |-> [b \in 1..Len(mm) |->
        IF (a - 1) \in Range(c1_indices) /\ (b - 1) \in Range(c2_indices)
        THEN dist ELSE mm[a][b]]]

\* lines 369-372; gene index g is row and column g + 1 of the matrix
fill_distances(mm, c1_indices, c2_indices, dist) ==
    [a \in 1..Len(mm) |-> [b \in 1..Len(mm) |->
        IF \/ (a - 1) \in Range(c1_indices) /\ (b - 1) \in Range(c2_indices)
           \/ (a - 1) \in Range(c2_indices) /\ (b - 1) \in Range(c1_indices)
        THEN dist ELSE mm[a][b]]]

\* the number of assignments of lines 371-372 to each cell
count_writes(w, c1_indices, c2_indices) ==
    [a \in 1..Len(w) |-> [b \in 1..Len(w) |->
        w[a][b] + Count(c1_indices, a - 1) * Count(c2_indices, b - 1)
                + Count(c2_indices, a - 1) * Count(c1_indices, b - 1)]]

\* the dictionary and the matrix of dendrogram_distance after the first k
\* rows of the linkage matrix l
RECURSIVE dendrogram_fold(_, _)
dendrogram_fold(l, k) ==
    IF k = 0
    THEN [clusters |-> initial_clusters(Len(l) + 1), m |-> zeros(Len(l) + 1)]
    ELSE LET st == dendrogram_fold(l, k - 1)
             z  == l[k]
         IN  [clusters |-> add_cluster(st.clusters, Len(l) + 1 + (k - 1), z),
              m |-> fill_distances(st.m, st.clusters[z.c1], st.clusters[z.c2], z.dist)]

\* scipy's cophenet(Z, Y) of lines 127 and 131: the correlation of Y with
\* the condensed cophenetic distances of the linkage matrix Z
cophenet(Z, Y) ==
    pearson_correlation_1d(StrictUpper(dendrogram_fold(Z, Len(Z)).m, 1, 2), Y)

Reverse(d) == [k \in 1..Len(d) |-> d[Len(d) + 1 - k]]

compare_cophenetic_reversed(dists_1, dists_2) ==
    pearson_correlation_1d(dists_1, Reverse(dists_2))

\* line 391: the correlation of the two condensed dendrogram distances
compare_cophenetic(dists_1, dists_2) == pearson_correlation_1d(dists_1, dists_2)

\* dendrogram_distance(l) begins: lines 357-361
DendrogramCall(l) ==
    /\ l_matrix' = l
    /\ clusters' = initial_clusters(Len(l) + 1)
    /\ dd_m' = zeros(Len(l) + 1)
    /\ dd_writes' = [a \in 1..(Len(l) + 1) |-> [b \in 1..(Len(l) + 1) |-> 0]]
    /\ dd_i' = 0

\* lines 315 and 127 (131): the linkage matrix is returned and its
\* cophenetic correlation computed; then the call of line 130 (line 388)
HierarchicalClusteringReturn ==
    /\ pc \in {"linkage_x", "linkage_z"}
    /\ Cardinality(lk_active) = 1
    /\ IF pc = "linkage_x"
       THEN /\ xl_matrix' = l_matrix
            /\ gamma_dx_tx' = cophenet(l_matrix, dists_x)
            /\ LinkageCall(distances_list(expr_z), "linkage_z")
            /\ UNCHANGED <<zl_matrix, gamma_dz_tz, ddLocals>>
       ELSE /\ zl_matrix' = l_matrix
            /\ gamma_dz_tz' = cophenet(l_matrix, dists_z)
            /\ DendrogramCall(xl_matrix)
            /\ pc' = "dendrogram_1"
            /\ UNCHANGED <<xl_matrix, gamma_dx_tx, lkLocals, err>>
    /\ UNCHANGED <<dists_x, dists_z, gamma_dx_dz, gamma_tx_tz>>
    /\ UNCHANGED <<inputVars, udVars, regVars, omegaVars, ddResults, scores>>

\* lines 362-372 for row i = dd_i of the linkage matrix
DendrogramStep ==
    /\ pc \in {"dendrogram_1", "dendrogram_2"}
    /\ dd_i < Len(l_matrix)
    /\ LET z          == l_matrix[dd_i + 1]
           nb_genes   == Len(l_matrix) + 1
           c1_indices == clusters[z.c1]
           c2_indices == clusters[z.c2]
       IN  /\ clusters' = add_cluster(clusters, nb_genes + dd_i, z)
           /\ dd_m' = fill_distances(dd_m, c1_indices, c2_indices, z.dist)
           /\ dd_writes' = count_writes(dd_writes, c1_indices, c2_indices)
    /\ dd_i' = dd_i + 1
    /\ UNCHANGED <<pc, err, l_matrix>>
    /\ UNCHANGED <<inputVars, udVars, regVars, omegaVars, gammaResults, lkLocals,
                   ddResults, scores>>

\* lines 375-376 (condensed=True), then line 389 or lines 391 and 136
DendrogramReturn ==
    /\ pc \in {"dendrogram_1", "dendrogram_2"}
    /\ dd_i = Len(l_matrix)
    /\ IF pc = "dendrogram_1"
       THEN /\ dists1' = upper_diag_list(dd_m)
            /\ DendrogramCall(zl_matrix)
            /\ pc' = "dendrogram_2"
            /\ UNCHANGED <<dists2, gamma_tx_tz, err>>
       ELSE /\ dists2' = upper_diag_list(dd_m)
            /\ UNCHANGED <<dists1, l_matrix, ddLocals>>
            /\ IF Len(dists1) = Len(dists2')
               THEN /\ gamma_tx_tz' = compare_cophenetic(dists1, dists2')
                    /\ pc' = IF top = "compute_scores" THEN "corrs_x" ELSE "done"
                    /\ UNCHANGED err
               ELSE \* line 29: assert x.shape[0] == y.shape[0]
                    /\ pc' = "raised"
                    /\ err' = "AssertionError"
                    /\ UNCHANGED gamma_tx_tz
    /\ UNCHANGED <<dists_x, dists_z, gamma_dx_dz, gamma_dx_tx, gamma_dz_tz,
                   xl_matrix, zl_matrix, lkLocals>>
    /\ UNCHANGED <<inputVars, udVars, regVars, omegaVars, scores>>

\* ------------------------------------------------------------------------
\* compute_scores: the returned list (lines 289-294)
\* ------------------------------------------------------------------------

\* a squared difference or sum of two roots s1*sqrt(q1), s2*sqrt(q2):
\* q1 + q2 + sign * 2*s1*s2*sqrt(q1*q2), kept as rat + coef * sqrt(rad) and
\* reduced to a rational as soon as q1*q2 has a rational square root
squared_combination(r1, r2, sign) ==
    IF IsNaNRoot(r1) \/ IsNaNRoot(r2)
    THEN [rat |-> NaN, coef |-> R(0), rad |-> R(0)]
    ELSE LET a == RAdd(r1.q, r2.q)
             b == R(sign * 2 * r1.s * r2.s)
             c == RMul(r1.q, r2.q)
         IN  IF IsSquare(c[1]) /\ IsSquare(c[2])
             THEN [rat |-> RAdd(a, RMul(b, RSqrt(c))), coef |-> R(0), rad |-> R(0)]
             ELSE [rat |-> a, coef |-> b, rad |-> c]

squared_sum(r1, r2) == squared_combination(r1, r2, 1)

\* line 291: (gamma_dx_tx - gamma_dz_tz)**2
squared_difference(r1, r2) == squared_combination(r1, r2, -1)

ScoresReturn ==
    /\ pc = "scores_return"
    /\ scores' = <<gamma_dx_dz,
                   gamma_tx_tz,
                   squared_difference(gamma_dx_tx, gamma_dz_tz),
                   psi_dx_dz,
                   phi_dx_dz,
                   omega_coeff>>
    /\ pc' = "done"
    /\ UNCHANGED <<err, inputVars, udVars, regVars, omegaVars, gammaVars>>

\* ------------------------------------------------------------------------
\* The regulatory part of compute_scores (lines 281-287) on its own
\* ------------------------------------------------------------------------

\* the symbols a TF->TGs map may mention
Symbols == {1, 2, 3}

\* the symbols of the expression columns: symbol 3 is column 1, symbol 1 is
\* column 2 and symbol 2 names no column
GeneSymbolLists == {<<3, 1>>}

MaxTFs == 2

\* a set of targets, listed in increasing order
RECURSIVE SetToSeq(_)
SetToSeq(S) ==
    IF S = {} THEN <<>>
    ELSE LET m == CHOOSE v \in S : \A u \in S : v <= u
         IN  <<m>> \o SetToSeq(S \ {m})

TgLists == {SetToSeq(S) : S \in SUBSET Symbols}

TfTgItems == [tf : Symbols, tgs : TgLists]

\* a dict: its keys are distinct
TfTgMaps ==
    UNION {{m \in [1..n -> TfTgItems] :
                \A a, b \in 1..n : a # b => m[a].tf # m[b].tf} : n \in 0..MaxTFs}

\* two samples per gene: a rising, a falling and a constant column
PairColumns == {<<0, 1>>, <<1, 0>>, <<1, 1>>}

InitRegulatory ==
    /\ pc = "corrs_x"
    /\ top = "regulatory"
    /\ err = "none"
    /\ ud_m = Unset
    /\ ud_out = Unset
    /\ gene_symbols \in GeneSymbolLists
    /\ tf_tg \in TfTgMaps
    /\ expr_x \in [1..Len(gene_symbols) -> PairColumns]
    /\ expr_z \in [1..Len(gene_symbols) -> PairColumns]
    /\ tie_rule = "first"
    /\ IdleCorr
    /\ IdleAgg
    /\ IdleOmega
    /\ IdleGamma

NextRegulatory ==
    \/ ComputeTfTgCorrsStep
    \/ ComputeTfTgCorrsReturn
    \/ PsiStep
    \/ PsiReturn
    \/ PhiStep
    \/ PhiReturn

SpecRegulatory == InitRegulatory /\ [][NextRegulatory]_vars

\* ------------------------------------------------------------------------
\* omega_coefficient(expr_x, expr_z, gene_symbols) on its own
\* ------------------------------------------------------------------------

InitOmega ==
    /\ pc = "chip_x"
    /\ top = "omega_coefficient"
    /\ err = "none"
    /\ ud_m = Unset
    /\ ud_out = Unset
    /\ gene_symbols \in GeneSymbolLists
    /\ tf_tg \in TfTgMaps
    /\ expr_x \in [1..Len(gene_symbols) -> {<<0, 1>>, <<1, 1>>}]
    /\ expr_z = expr_x
    /\ tie_rule = "first"
    /\ IdleCorr
    /\ IdleAgg
    /\ IdleOmega
    /\ IdleGamma

NextOmega ==
    \/ FindChipRatesStep
    \/ FindChipRatesReturn
    \/ OmegaCoefficient

SpecOmega == InitOmega /\ [][NextOmega]_vars

\* ------------------------------------------------------------------------
\* gamma_coefficients(expr_x, expr_z) on its own
\* ------------------------------------------------------------------------

MaxGenes == 3

\* four samples per gene: two opposite columns, one uncorrelated with both,
\* and a constant one
QuadColumns == {<<0, 0, 1, 1>>, <<1, 1, 0, 0>>, <<0, 1, 0, 1>>, <<1, 1, 1, 1>>}

InitGamma ==
    /\ pc = "gamma_coefficients"
    /\ top = "gamma_coefficients"
    /\ err = "none"
    /\ ud_m = Unset
    /\ ud_out = Unset
    /\ gene_symbols = <<>>
    /\ tf_tg = <<>>
    /\ \E n \in 2..MaxGenes :
          /\ expr_x \in [1..n -> QuadColumns]
          /\ expr_z \in [1..n -> PairColumns]
    /\ tie_rule \in TieRules
    /\ IdleCorr
    /\ IdleAgg
    /\ IdleOmega
    /\ IdleGamma

NextGamma ==
    \/ GammaCoefficientsCall
    \/ LinkageMerge
    \/ HierarchicalClusteringReturn
    \/ DendrogramStep
    \/ DendrogramReturn

SpecGamma == InitGamma /\ [][NextGamma]_vars

\* ------------------------------------------------------------------------
\* compute_scores(expr_x, expr_z, gene_symbols)
\* ------------------------------------------------------------------------

\* four genes; the transcription factor 3 regulates the genes 1 and 2, or
\* one of them, or the map is empty; gene 4 is in no interaction
ScoresGeneSymbols == <<3, 1, 2, 4>>

ScoresMaps == {<<>>,
               <<[tf |-> 3, tgs |-> <<1, 2>>]>>,
               <<[tf |-> 3, tgs |-> <<2>>]>>}

\* the real data: the genes of the map correlate fully or are constant (the
\* cosine similarities of psi and phi stay rational), gene 4 is free
ScoresReal ==
    {x \in [1..4 -> QuadColumns] :
        \A g \in 1..3 : x[g] \in {<<0, 0, 1, 1>>, <<1, 1, 0, 0>>, <<1, 1, 1, 1>>}}

\* the synthetic data: the real data itself, the real data with two genes
\* exchanged, or two samples of four genes
ScoresSynthetic(x) ==
    {x, <<x[2], x[1], x[3], x[4]>>, <<<<0, 1>>, <<0, 1>>, <<1, 0>>, <<1, 0>>>>}

InitScores ==
    /\ pc = "gamma_coefficients"
    /\ top = "compute_scores"
    /\ err = "none"
    /\ ud_m = Unset
    /\ ud_out = Unset
    /\ gene_symbols = ScoresGeneSymbols
    /\ tf_tg \in ScoresMaps
    /\ expr_x \in ScoresReal
    /\ expr_z \in ScoresSynthetic(expr_x)
    /\ tie_rule \in TieRules
    /\ IdleCorr
    /\ IdleAgg
    /\ IdleOmega
    /\ IdleGamma

NextScores ==
    \/ GammaCoefficientsCall
    \/ LinkageMerge
    \/ HierarchicalClusteringReturn
    \/ DendrogramStep
    \/ DendrogramReturn
    \/ ComputeTfTgCorrsStep
    \/ ComputeTfTgCorrsReturn
    \/ PsiStep
    \/ PsiReturn
    \/ PhiStep
    \/ PhiReturn
    \/ FindChipRatesStep
    \/ FindChipRatesReturn
    \/ OmegaCoefficient
    \/ ScoresReturn

SpecScores == InitScores /\ [][NextScores]_vars

\* ------------------------------------------------------------------------
\* Properties of the regulatory part
\* ------------------------------------------------------------------------

\* the targets of an item whose symbol names a column
PresentTargets(item) == Range(item.tgs) \cap Range(gene_symbols)

\* an item whose TF names a column and that has a target naming a column
Eligible(item) == item.tf \in Range(gene_symbols) /\ PresentTargets(item) # {}

\* the TFs of the eligible items among the first n, in map iteration order
RECURSIVE EligibleTFs(_)
EligibleTFs(n) ==
    IF n = 0 THEN <<>>
    ELSE EligibleTFs(n - 1) \o (IF Eligible(tf_tg[n]) THEN <<tf_tg[n].tf>> ELSE <<>>)

\* the item of the map whose key is tf
ItemOf(tf) == CHOOSE item \in Range(tf_tg) : item.tf = tf

\* the number of targets of the k-th group of expr_x that name a column
NbTargets(k) == Cardinality(PresentTargets(ItemOf(r_group_tfs[k])))

\* the column of gene symbol g is constant in expr
IsConstant(expr, g) ==
    \A a, b \in 1..Len(expr[IndexOf(gene_symbols, g)]) :
        expr[IndexOf(gene_symbols, g)][a] = expr[IndexOf(gene_symbols, g)][b]

XDone == pc \in {"corrs_z", "psi", "phi", "done", "raised"}

ZDone == pc \in {"psi", "phi", "done", "raised"}

\* C1: compute_tf_tg_corrs (flat=False) emits exactly one TF-TG group and
\* one TG-TG group per TF that is in gene_symbols and has at least one target
\* in gene_symbols, in map iteration order; any other TF contributes no group.
C1_OneGroupPerEligibleTF ==
    /\ pc \in {"corrs_x", "corrs_z"} =>
          /\ group_tfs = EligibleTFs(it)
          /\ Len(tf_tg_corr) = Len(group_tfs)
          /\ Len(tg_tg_corr) = Len(group_tfs)
    /\ XDone =>
          /\ r_group_tfs = EligibleTFs(Len(tf_tg))
          /\ Len(r_tf_tg_corr) = Len(r_group_tfs)
          /\ Len(r_tg_tg_corr) = Len(r_group_tfs)
          /\ \A k \in 1..Len(r_group_tfs) : Len(r_tf_tg_corr[k]) = NbTargets(k)
    /\ ZDone =>
          /\ s_group_tfs = EligibleTFs(Len(tf_tg))
          /\ Len(s_tf_tg_corr) = Len(s_group_tfs)
          /\ Len(s_tg_tg_corr) = Len(s_group_tfs)

\* a map of two items, the first with a TF that names a column but with no
\* target that does, the second eligible: one group, of the second TF
C1_Witness ==
    /\ XDone
    /\ Len(tf_tg) = 2
    /\ tf_tg[1].tf \in Range(gene_symbols)
    /\ tf_tg[1].tgs # <<>>
    /\ PresentTargets(tf_tg[1]) = {}
    /\ r_group_tfs = <<tf_tg[2].tf>>
    /\ Len(r_tf_tg_corr) = 1

\* C2 (as claimed): in phi_coefficient with weights_type='nb_genes', for a TF
\* with g >= 2 targets whose TG-TG list has length g(g-1)/2, the weight used
\* equals g, the TF's number of target genes.
C2_WeightIsNbGenes ==
    (pc = "phi" /\ i >= 1) =>
        LET g == Len(r_tf_tg_corr[i])
        IN  (g >= 2 /\ 2 * Len(r_tg_tg_corr[i]) = g * (g - 1)) => weight = g

C6_SingleTarget ==
    /\ [](XDone => \A k \in 1..Len(r_group_tfs) :
             NbTargets(k) = 1 => r_tg_tg_corr[k] = <<>> /\ Len(r_tf_tg_corr[k]) = 1)
    /\ [][(pc = "phi" /\ i < ZipLen(r_tg_tg_corr, s_tg_tg_corr)
              /\ r_tg_tg_corr[i + 1] = <<>>) =>
             (weights_sum' = weights_sum /\ total_sum' = total_sum /\ i' = i + 1)]_vars
    /\ [][(pc = "psi" /\ i < ZipLen(r_tf_tg_corr, s_tf_tg_corr)
              /\ NbTargets(i + 1) = 1) =>
             (weights_sum' = weights_sum + 1 /\ i' = i + 1)]_vars

\* phi_coefficient has passed a single-target TF that psi_coefficient counted
C6_Witness ==
    /\ pc = "phi"
    /\ i >= 1
    /\ NbTargets(i) = 1
    /\ r_tg_tg_corr[i] = <<>>
    /\ weights_sum = 0
    /\ psi_dx_dz # Unset

\* ------------------------------------------------------------------------
\* Properties of the weighted aggregators on an empty set of eligible TFs
\* ------------------------------------------------------------------------

PsiReturned == pc \in {"phi", "chip_x", "chip_z", "omega", "scores_return", "done"}
                  /\ top \in {"regulatory", "compute_scores"}

PhiReturned == pc \in {"chip_x", "chip_z", "omega", "scores_return", "done"}
                  /\ top \in {"regulatory", "compute_scores"}

OmegaReturned == pc \in {"scores_return", "done"}
                    /\ top \in {"omega_coefficient", "compute_scores"}

\* the total weight of each aggregator
PsiTotalWeight ==
    ISum([k \in 1..ZipLen(r_tf_tg_corr, s_tf_tg_corr) |-> Len(r_tf_tg_corr[k])])

PhiTotalWeight ==
    ISum([k \in 1..ZipLen(r_tg_tg_corr, s_tg_tg_corr) |-> Len(r_tg_tg_corr[k])])

OmegaTotalWeight == ISum(weights_x)

\* C4 (as claimed): when the total weight is zero, psi_coefficient,
\* phi_coefficient and omega_coefficient each end in an error; none of them
\* returns a value (NaN or any other) from a division by the zero total.
C4_ZeroWeightRaises ==
    /\ PsiReturned => PsiTotalWeight # 0
    /\ PhiReturned => PhiTotalWeight # 0
    /\ OmegaReturned => OmegaTotalWeight # 0

\* the part of C4 that the code keeps: psi_coefficient and phi_coefficient
\* raise ZeroDivisionError on a zero total weight
C4_PsiPhiRaise ==
    /\ PsiReturned => PsiTotalWeight # 0
    /\ PhiReturned => PhiTotalWeight # 0
    /\ (pc = "raised" /\ err = "ZeroDivisionError") => weights_sum = 0

\* ------------------------------------------------------------------------
\* Properties of upper_diag_list
\* ------------------------------------------------------------------------

\* C5 (as claimed): for every n x n matrix m, NaN entries included,
\* upper_diag_list(m) returns exactly n(n-1)/2 values: the entries m[i][j]
\* with i < j in row-major order and nothing else.
C5_StrictUpperTriangle ==
    pc = "done" /\ top = "upper_diag_list" =>
        /\ 2 * Len(ud_out) = Len(ud_m) * (Len(ud_m) - 1)
        /\ ud_out = StrictUpper(ud_m, 1, 2)

\* what upper_diag_list returns: the entries above the diagonal that are
\* not NaN, in row-major order
C5_StrictUpperWithoutNaN ==
    pc = "done" /\ top = "upper_diag_list" =>
        ud_out = DropNaN(StrictUpper(ud_m, 1, 2))

\* ------------------------------------------------------------------------
\* Properties of the clustering utilities
\* ------------------------------------------------------------------------

\* the leaves under the cluster id of a linkage matrix l over n leaves
RECURSIVE Members(_, _, _)
Members(l, n, id) ==
    IF id < n THEN {id}
    ELSE Members(l, n, l[id - n + 1].c1) \cup Members(l, n, l[id - n + 1].c2)

ChildIds(z) == {z.c1, z.c2}

\* the linkage matrix of n genes that C7 describes
WellFormedLinkage(l, n) ==
    /\ Len(l) = n - 1
    /\ \A k \in 1..Len(l) :
          /\ l[k].c1 # l[k].c2
          /\ ChildIds(l[k]) \subseteq 0..(n + (k - 1) - 1)
    /\ \A j, k \in 1..Len(l) : j # k => ChildIds(l[j]) \cap ChildIds(l[k]) = {}
    /\ Members(l, n, n + Len(l) - 1) = 0..(n - 1)
    /\ l[Len(l)].n_elems = n

\* the merge distance of each record is the largest distance y between a
\* leaf of one child and a leaf of the other, and no record merges at a
\* smaller distance than the one before it
CompleteLinkage(l, y) ==
    LET n == Len(l) + 1
    IN  /\ \A k \in 1..Len(l) :
              /\ \E a \in Members(l, n, l[k].c1), b \in Members(l, n, l[k].c2) :
                    l[k].dist = y[condensed_index(n, Min(a, b), IF a < b THEN b ELSE a)]
              /\ \A a \in Members(l, n, l[k].c1), b \in Members(l, n, l[k].c2) :
                    ~RLess(l[k].dist,
                           y[condensed_index(n, Min(a, b), IF a < b THEN b ELSE a)])
        /\ \A k \in 1..(Len(l) - 1) : ~RLess(l[k + 1].dist, l[k].dist)

ConstantColumn(col) == \A a, b \in 1..Len(col) : col[a] = col[b]

XClustered == pc \in {"linkage_z", "dendrogram_1", "dendrogram_2", "done"}
                 /\ top = "gamma_coefficients"

ZClustered == pc \in {"dendrogram_1", "dendrogram_2", "done"}
                 /\ top = "gamma_coefficients"

\* C7 (as claimed): for n >= 2 genes hierarchical_clustering ends after
\* exactly n-1 merges with one cluster holding all n genes; record i names
\* two distinct ids among the leaves 0..n-1 and the merge nodes n..n+i-1 of
\* earlier records, and no id is a child twice.
C7_LinkageOfAllGenes ==
    /\ err # "ValueError"
    /\ XClustered => WellFormedLinkage(xl_matrix, Len(expr_x))
    /\ ZClustered => WellFormedLinkage(zl_matrix, Len(expr_z))

\* what the code keeps of C7: the linkage matrix is well formed over the
\* genes that are not constant, it is a complete linkage of their distances,
\* and clustering raises ValueError when fewer than two such genes are left
C7_LinkageOfVaryingGenes ==
    LET nx == Cardinality({g \in 1..Len(expr_x) : ~ConstantColumn(expr_x[g])})
        nz == Cardinality({g \in 1..Len(expr_z) : ~ConstantColumn(expr_z[g])})
    IN  /\ XClustered => /\ nx >= 2
                         /\ WellFormedLinkage(xl_matrix, nx)
                         /\ CompleteLinkage(xl_matrix, dists_x)
        /\ ZClustered => /\ nz >= 2
                         /\ WellFormedLinkage(zl_matrix, nz)
                         /\ CompleteLinkage(zl_matrix, dists_z)
        /\ err = "ValueError" => nx < 2 \/ nz < 2

C7_ThreeGenesTwoMerges ==
    /\ XClustered
    /\ Len(expr_x) = 3
    /\ Len(xl_matrix) = 2

\* the record of l at which the leaves a and b lie in the two children
SeparatedAt(l, k, a, b) ==
    LET n == Len(l) + 1
    IN  \/ a \in Members(l, n, l[k].c1) /\ b \in Members(l, n, l[k].c2)
        \/ a \in Members(l, n, l[k].c2) /\ b \in Members(l, n, l[k].c1)

MergeDistance(l, a, b) ==
    l[CHOOSE k \in 1..Len(l) : SeparatedAt(l, k, a, b)].dist

\* the condensed dendrogram distances of l: rows of the upper triangle
ExpectedCondensed(l) ==
    LET n  == Len(l) + 1
        mm == [a \in 1..n |-> [b \in 1..n |->
                  IF a = b THEN R(0) ELSE MergeDistance(l, a - 1, b - 1)]]
    IN  StrictUpper(mm, 1, 2)

\* C8: when dendrogram_distance has replayed all n-1 records of a linkage
\* matrix over n genes, m is symmetric with a zero diagonal, every entry
\* m[i][j] with i # j was assigned exactly once and holds the distance of
\* the one record that merges a cluster holding i with a cluster holding j;
\* the condensed result is the n(n-1)/2 entries above the diagonal.
C8_DendrogramDistance ==
    /\ (pc \in {"dendrogram_1", "dendrogram_2"} /\ dd_i = Len(l_matrix)) =>
          LET n == Len(l_matrix) + 1
          IN  \A a, b \in 1..n :
                 /\ dd_m[a][b] = dd_m[b][a]
                 /\ a = b => dd_m[a][b] = R(0) /\ dd_writes[a][b] = 0
                 /\ a # b =>
                      /\ dd_writes[a][b] = 1
                      /\ Cardinality({k \in 1..Len(l_matrix) :
                                        SeparatedAt(l_matrix, k, a - 1, b - 1)}) = 1
                      /\ dd_m[a][b] = MergeDistance(l_matrix, a - 1, b - 1)
    /\ (pc \in {"dendrogram_2", "done"} /\ top = "gamma_coefficients") =>
          /\ dists1 = ExpectedCondensed(xl_matrix)
          /\ 2 * Len(dists1) = (Len(xl_matrix) + 1) * Len(xl_matrix)
    /\ (pc = "done" /\ top = "gamma_coefficients") =>
          /\ dists2 = ExpectedCondensed(zl_matrix)
          /\ dists2 = StrictUpper(dd_m, 1, 2)
          /\ 2 * Len(dists2) = (Len(zl_matrix) + 1) * Len(zl_matrix)

C8_Witness ==
    /\ pc = "done"
    /\ top = "gamma_coefficients"
    /\ Len(zl_matrix) = 2
    /\ Len(dists2) = 3
    /\ dists1[1] # dists1[2]
    /\ dd_writes[1][3] = 1

AllEqual(d) == \A a, b \in 1..Len(d) : d[a] = d[b]

\* C9 (as claimed): a dendrogram compared to itself has cophenetic
\* correlation 1.0, also when all its dendrogram distances are equal.
C9_SelfComparisonIsOne ==
    (pc = "done" /\ top = "gamma_coefficients" /\ xl_matrix = zl_matrix) =>
        gamma_tx_tz = OneRoot

\* C9 (as the code has it): a dendrogram compared to itself has cophenetic
\* correlation 1.0 unless all its dendrogram distances are equal; then the
\* standard deviation is zero and the result is NaN.
C9_SelfComparison ==
    (pc = "done" /\ top = "gamma_coefficients" /\ xl_matrix = zl_matrix) =>
        gamma_tx_tz = IF AllEqual(ExpectedCondensed(xl_matrix))
                      THEN NaNRoot ELSE OneRoot

C9_Witness ==
    /\ pc = "done"
    /\ top = "gamma_coefficients"
    /\ xl_matrix = zl_matrix
    /\ ~AllEqual(dists1)
    /\ gamma_tx_tz = OneRoot

\* ------------------------------------------------------------------------
\* Properties of compute_scores
\* ------------------------------------------------------------------------

ScoresReturned == pc = "done" /\ top = "compute_scores"

SquaredZero == [rat |-> R(0), coef |-> R(0), rad |-> R(0)]

SquaredNaN == [rat |-> NaN, coef |-> R(0), rad |-> R(0)]

IsRationalRoot(r) == ~IsNaNRoot(r) /\ IsSquare(r.q[1]) /\ IsSquare(r.q[2])

RootValue(r) == RMul(R(r.s), RSqrt(r.q))

\* the six values in their order: the gamma values are those of
\* gamma_coefficients, recomputed here from the inputs and the linkage
\* matrices, and the third one is the square of a difference
SixScoresInOrder ==
    LET dx_tx == cophenet(xl_matrix, distances_list(expr_x))
        dz_tz == cophenet(zl_matrix, distances_list(expr_z))
    IN  /\ Len(scores) = 6
        /\ scores[1] = pearson_correlation_1d(distances_list(expr_x),
                                              distances_list(expr_z))
        /\ scores[2] = pearson_correlation_1d(ExpectedCondensed(xl_matrix),
                                              ExpectedCondensed(zl_matrix))
        /\ IsNaNRoot(dx_tx) \/ IsNaNRoot(dz_tz) => scores[3] = SquaredNaN
        /\ IsRationalRoot(dx_tx) /\ IsRationalRoot(dz_tz) =>
              scores[3] =
                  [rat  |-> RMul(RSub(RootValue(dx_tx), RootValue(dz_tz)),
                                 RSub(RootValue(dx_tx), RootValue(dz_tz))),
                   coef |-> R(0), rad |-> R(0)]
        /\ ~IsNaNRoot(dx_tx) /\ ~IsNaNRoot(dz_tz) =>
              \* a^2 + b^2 - 2ab with a^2 = dx_tx.q, b^2 = dz_tz.q
              LET squares == RAdd(dx_tx.q, dz_tz.q)
                  ab_2    == RMul(dx_tx.q, dz_tz.q)
                  twice   == R(2 * dx_tx.s * dz_tz.s)
              IN  IF IsSquare(ab_2[1]) /\ IsSquare(ab_2[2])
                  THEN /\ scores[3].rat = RSub(squares, RMul(twice, RSqrt(ab_2)))
                       /\ scores[3].coef = R(0)
                  ELSE /\ scores[3].rat = squares
                       /\ scores[3].coef = RNeg(twice)
                       /\ scores[3].rad = ab_2
        /\ scores[4] = psi_dx_dz
        /\ scores[5] = phi_dx_dz
        /\ scores[6] = omega_coeff

\* C10 (as claimed): compute_scores returns six values in the order
\* Gamma(D^X,D^Z), Gamma(T^X,T^Z), (Gamma(D^X,T^X) - Gamma(D^Z,T^Z))^2, psi,
\* phi, omega, and the third one is 0 whenever expr_x and expr_z are the
\* same matrix.
C10_ThirdScoreZeroOnEqualData ==
    ScoresReturned =>
        /\ SixScoresInOrder
        /\ expr_x = expr_z => scores[3] = SquaredZero

\* C10 (as the code has it): when compute_scores returns, it returns the six
\* values in that order; on equal matrices the third one is 0 when the
\* cophenetic correlation of the data is defined and NaN when it is not.
C10_ScoreVector ==
    ScoresReturned =>
        /\ SixScoresInOrder
        /\ expr_x = expr_z =>
              scores[3] = IF IsNaNRoot(gamma_dx_tx) THEN SquaredNaN ELSE SquaredZero

C10_Witness ==
    /\ ScoresReturned
    /\ expr_x = expr_z
    /\ ~IsNaNRoot(gamma_dx_tx)
    /\ gamma_dx_tx # OneRoot
    /\ scores[3] = SquaredZero

C10_WitnessUnequal ==
    /\ ScoresReturned
    /\ scores[3].rat # NaN
    /\ scores[3] # SquaredZero

\* ------------------------------------------------------------------------
\* Properties of the structure of the per-TF outputs
\* ------------------------------------------------------------------------

\* both calls of compute_tf_tg_corrs have returned, or none has
CorrsReturned == pc \notin {"corrs_x", "corrs_z"}

\* both calls of find_chip_rates have returned
ChipRatesReturned == pc \in {"omega", "scores_return", "done"}
                        /\ top \in {"omega_coefficient", "compute_scores"}

Lengths(groups) == [k \in 1..Len(groups) |-> Len(groups[k])]

\* the groups of both datasets are those of the same TFs in the same order
SameGroups ==
    /\ Len(r_tf_tg_corr) = Len(s_tf_tg_corr)
    /\ Len(r_tg_tg_corr) = Len(s_tg_tg_corr)
    /\ Len(r_tf_tg_corr) = Len(r_tg_tg_corr)
    /\ r_group_tfs = s_group_tfs

\* the weights of both datasets are equal and there is one per chip rate
SameWeights ==
    /\ weights_x = weights_y
    /\ Len(rates_x) = Len(weights_x)
    /\ Len(rates_y) = Len(weights_y)
    /\ pc = "omega" => weights_assertion(weights_x, weights_y) = "pass"

\* C12 (as claimed): the structure of the per-TF outputs depends on
\* gene_symbols and the map only: for the two expression matrices
\* compute_tf_tg_corrs(flat=False) returns the same number of groups, of the
\* same TFs in the same order, with the same length per group, and
\* find_chip_rates returns equal weight arrays, one weight per chip rate, so
\* that the assertion of omega_coefficient holds.
C12_StructureIgnoresExpression ==
    /\ CorrsReturned =>
          /\ SameGroups
          /\ Lengths(r_tf_tg_corr) = Lengths(s_tf_tg_corr)
          /\ Lengths(r_tg_tg_corr) = Lengths(s_tg_tg_corr)
    /\ ChipRatesReturned => SameWeights

\* what the code keeps of C12: everything but the lengths of the TG-TG
\* groups, which are those of the target pairs whose correlation is not NaN
C12_StructureButTgTgLengths ==
    /\ CorrsReturned =>
          /\ SameGroups
          /\ Lengths(r_tf_tg_corr) = Lengths(s_tf_tg_corr)
          /\ \A k \in 1..Len(r_tg_tg_corr) :
                LET tg_idxs == tg_idxs_of(gene_symbols, ItemOf(r_group_tfs[k]).tgs)
                IN  /\ r_tg_tg_corr[k] =
                          DropNaN(StrictUpper(pearson_correlation(
                              Columns(expr_x, tg_idxs), Columns(expr_x, tg_idxs)), 1, 2))
                    /\ s_tg_tg_corr[k] =
                          DropNaN(StrictUpper(pearson_correlation(
                              Columns(expr_z, tg_idxs), Columns(expr_z, tg_idxs)), 1, 2))
    /\ ChipRatesReturned => SameWeights

\* a return of find_chip_rates for both datasets with a weight in it
C12_WeightsWitness ==
    /\ ChipRatesReturned
    /\ Len(weights_x) > 0
    /\ expr_x # expr_z

====
